---- MODULE Spec2Model ----
(***************************************************************************)
(* A model of programmabletuple: the metaclass ProgrammableTupleMeta       *)
(* (field determination, proxy class formation, the patched super), the    *)
(* two-phase construction of a record through a mutable proxy object, and  *)
(* the utility methods of _UtilMethodsMixin on frozen records.             *)
(*                                                                         *)
(* Python values are modelled as finite sequences of naturals (a string    *)
(* is the sequence of its characters); a mapping is a function whose       *)
(* domain is its key set; field names and class names are strings.         *)
(***************************************************************************)
EXTENDS Integers, Sequences, FiniteSets, TLC

VARIABLES
    classes,    \* the class objects created so far: name -> class
    records,    \* the frozen records the caller holds references to
    pc,         \* where the current call is: idle, init, harvest, done
    call,       \* the call being executed: operation, class, arguments
    proxy,      \* the attribute dictionary of the proxy object (builder)
    stack,      \* the running initializer invocations, innermost last
    trace,      \* the initializers invoked by this call, in order
    ret         \* what the finished call hands back: exception or record

vars == <<classes, records, pc, call, proxy, stack, trace, ret>>

(***************************************************************************)
(* Bounds of the model.                                                    *)
(***************************************************************************)
\* records the caller keeps at the same time
MaxRecords == 1
\* arguments passed by keyword in one constructor call
MaxKw == 1
\* user classes declared one under the other in SpecDecl
MaxDepth == 2
\* depth of the interpreter's call stack (RecursionError beyond it)
RecursionLimit == 4
\* number of distinct hash values
HashSpace == 251

(***************************************************************************)
(* Strings and their order.                                                *)
(***************************************************************************)
\* the field names in use, in the lexicographic order of Python's str
NameOrder ==
    <<"__class__", "a", "age", "b", "c", "cls", "first_name", "full_name",
      "item", "label", "last_name", "self">>

Rank(n) == CHOOSE i \in 1..Len(NameOrder) : NameOrder[i] = n

StrLess(a, b) == Rank(a) < Rank(b)

RECURSIVE sorted(_)
\* sorted(S) of a set of strings: ascending list
sorted(S) ==
    IF S = {} THEN <<>>
    ELSE LET m == CHOOSE x \in S : \A y \in S : ~StrLess(y, x)
         IN  <<m>> \o sorted(S \ {m})

Range(s) == {s[i] : i \in 1..Len(s)}

EmptyMap == [n \in {} |-> <<>>]

(***************************************************************************)
(* Values. A Python value is a sequence of naturals. A string or a number  *)
(* is a sequence of small naturals; a reference to a programmable tuple    *)
(* starts with RecMark and a reference to a dict with DictMark, followed   *)
(* by what the object holds, each part behind its length.                  *)
(***************************************************************************)
\* isinstance(type(val), ProgrammableTupleMeta)
RecMark == 90
\* isinstance(v, dict)
DictMark == 91

RECURSIVE PackList(_)
\* the parts of an object one after the other, each behind its length
PackList(parts) ==
    IF parts = <<>> THEN <<>>
    ELSE <<Len(Head(parts))>> \o Head(parts) \o PackList(Tail(parts))

RECURSIVE UnpackList(_)
UnpackList(s) ==
    IF s = <<>> THEN <<>>
    ELSE <<SubSeq(s, 2, 1 + s[1])>> \o UnpackList(SubSeq(s, 2 + s[1], Len(s)))

IsRecordValue(v) == Len(v) > 0 /\ v[1] = RecMark

IsDictValue(v) == Len(v) > 0 /\ v[1] = DictMark

(***************************************************************************)
(* Expressions and statements of a user initializer body, and the          *)
(* namespace of a class statement.                                         *)
(***************************************************************************)
\* k = "local": the parameter n;  "const": the literal v;
\* "join": ', '.join([m, n]) of two parameters;
\* "tag": ', '.join([self.n, v]);  "succ": self.n + 1;  "attr": self.n
Expr(k, n, m, v) == [k |-> k, n |-> n, m |-> m, v |-> v]
Local(n) == Expr("local", n, "", <<>>)
Const(v) == Expr("const", "", "", v)
Join(m, n) == Expr("join", n, m, <<>>)
Tag(n, v) == Expr("tag", n, "", v)
SuccOf(n) == Expr("succ", n, "", <<>>)
Attr(n) == Expr("attr", n, "", <<>>)

\* self.field = expr
SetStmt(f, e) ==
    [op |-> "set", field |-> f, expr |-> e, cls |-> "", args |-> <<>>]
\* self.super(cls).__init__(*args); cls = "" is the call self.super()
SuperStmt(c, as) ==
    [op |-> "super", field |-> "", expr |-> Const(<<>>), cls |-> c,
     args |-> as]

\* the '__init__' entry of a namespace: absent, a function, or another object
NoInit == [kind |-> "none", argnames |-> <<>>, body |-> <<>>]
NonFunctionInit == [kind |-> "nonfunc", argnames |-> <<>>, body |-> <<>>]
Func(params, body) ==
    [kind |-> "func", argnames |-> <<"self">> \o params, body |-> body]

Namespace(hasData, dataFields, init, attrs) ==
    [has_data |-> hasData, data_fields |-> dataFields, init |-> init,
     attrs |-> attrs]

(***************************************************************************)
(* The metaclass.                                                          *)
(***************************************************************************)
\* isinstance(base, ProgrammableTupleMeta), for a base named in a class
\* statement executed with the class table T
IsProgrammableTuple(T, base) == base \in DOMAIN T

\* the bases that are programmable tuple classes, in order
_gen_programmable_tuple_bases(T, raw_bases) ==
    SelectSeq(raw_bases, LAMBDA b : IsProgrammableTuple(T, b))

\* func.__code__.co_varnames[0:co_argcount]; only a function has __code__
_get_argnames(func) == func.argnames

\* an OrderedDict: its keys in insertion order and the value of each key
EmptyOD == [keys |-> <<>>, idx |-> EmptyMap]

\* od[key] = value
ODSet(od, key, value) ==
    IF key \in DOMAIN od.idx
    THEN [od EXCEPT !.idx = [od.idx EXCEPT ![key] = value]]
    ELSE [keys |-> Append(od.keys, key), idx |-> od.idx @@ (key :> value)]

RECURSIVE ODFill(_, _, _)
\* for idx, fn in enumerate(names): od[fn] = idx, from index start
ODFill(od, names, start) ==
    IF names = <<>> THEN od
    ELSE ODFill(ODSet(od, Head(names), start), Tail(names), start + 1)

\* the set of all field names of the programmable tuple bases
BaseFieldNames(T, bases) ==
    UNION {Range(T[b].fields.keys) :
             b \in Range(_gen_programmable_tuple_bases(T, bases))}

\* a determination of the data fields that keeps the defining ones
DataFieldsKeepAll(fields, defining_fields) == sorted(fields)

\* the data fields: every field collected, less the defining ones, sorted
DataFields(fields, defining_fields) ==
    sorted(fields \ Range(defining_fields))

\* a determination of the fields that insists on an initializer
DetermineFieldsStrict(T, bases, nmspc) ==
    IF nmspc.init.kind # "func"
    THEN [exc |-> "ValueError", fields |-> EmptyOD, defining_count |-> 0]
    ELSE [exc |-> "",
          fields |-> ODFill(EmptyOD,
                        Tail(_get_argnames(nmspc.init)) \o
                        sorted(
                            (BaseFieldNames(T, bases) \cup
                               (IF nmspc.has_data
                                THEN Range(nmspc.data_fields) ELSE {}))
                              \ Range(Tail(_get_argnames(nmspc.init)))), 0),
          defining_count |-> Len(nmspc.init.argnames) - 1]

\* _determine_fields(bases, nmspc): the exception raised ("" for none),
\* the ordered dictionary of fields and the number of defining fields
_determine_fields(T, bases, nmspc) ==
    LET fields == BaseFieldNames(T, bases) \cup
                  (IF nmspc.has_data THEN Range(nmspc.data_fields) ELSE {})
        init_meth == nmspc.init
    IN  IF init_meth.kind = "nonfunc"
        THEN [exc |-> "ValueError", fields |-> EmptyOD, defining_count |-> 0]
        ELSE
          LET defining_fields ==
                  IF init_meth.kind = "none" THEN <<>>
                  ELSE Tail(_get_argnames(init_meth))
              data_fields == DataFields(fields, defining_fields)
          IN  [exc |-> "",
               fields |-> ODFill(EmptyOD, defining_fields \o data_fields, 0),
               defining_count |-> Len(defining_fields)]

\* the proxy class of a programmable tuple class of T, or object
ProxyParent(T, bases) ==
    LET pt == _gen_programmable_tuple_bases(T, bases)
    IN  IF Len(pt) > 0 THEN pt[1] ELSE "object"

\* __init__ as the proxy class resolves it: the class whose namespace holds
\* the function ("object" for object.__init__) and whether a decoration by
\* _add_auto_defining lies on the way to it
ProxyInitOf(T, bases, nmspc, auto_defining) ==
    LET parent == ProxyParent(T, bases)
        inherited == IF parent = "object"
                     THEN [owner |-> "object", auto |-> FALSE]
                     ELSE T[parent].proxy_init
    IN  IF nmspc.init.kind = "func"
        THEN [owner |-> "", auto |-> auto_defining]
        ELSE [owner |-> inherited.owner,
              auto |-> inherited.auto \/ auto_defining]

\* any(issubclass(i, tuple) for i in bases)
IsTupleSubclass(T, bases) ==
    \E i \in 1..Len(bases) :
        \/ bases[i] = "tuple"
        \/ bases[i] \in DOMAIN T /\ T[bases[i]].is_tuple

\* ProgrammableTupleMeta.__new__(mcs, name, bases, nmspc, auto_defining):
\* the exception raised, and the class object otherwise
ProgrammableTupleMeta_new(T, name, bases, nmspc, auto_defining) ==
    LET df == _determine_fields(T, bases, nmspc)
        pinit == ProxyInitOf(T, bases, nmspc, auto_defining)
    IN  [exc |-> df.exc,
         cls |-> [name |-> name,
                  bases |-> bases,
                  parent |-> ProxyParent(T, bases),
                  is_tuple |-> IsTupleSubclass(T, bases),
                  fields |-> df.fields,
                  defining_count |-> df.defining_count,
                  nmspc |-> nmspc,
                  proxy_init |->
                      [owner |-> IF pinit.owner = "" THEN name
                                 ELSE pinit.owner,
                       auto |-> pinit.auto]]]

\* the class table after the class statement has run
Declare(T, name, bases, nmspc, auto_defining) ==
    LET r == ProgrammableTupleMeta_new(T, name, bases, nmspc, auto_defining)
    IN  IF r.exc = "" THEN T @@ (name :> r.cls) ELSE T

(***************************************************************************)
(* The class statements of the main specification: the two public base     *)
(* classes, the classes of the test suite, and subclasses of them.         *)
(***************************************************************************)
\* the scalar values handed to constructors
Val == {<<1>>, <<2>>}
\* the literal 'Johnson'
Johnson == <<3>>
\* the separator ', ' of _get_full_name
Sep == <<0>>
\* a literal appended by an initializer that rewrites its argument
Suffix == <<7>>
\* the value of a method looked up on an object
BoundMethod == <<8>>

PersonAttrs == ("sui" :> SuccOf("age"))
JohnsonsAttrs == ("is_johnsons" :> Const(BoundMethod))
NoAttrs == [n \in {} |-> Const(<<>>)]

Statements ==
    <<
      [name |-> "ProgrammableTuple",
       bases |-> <<"_UtilMethodsMixin", "tuple">>, auto |-> FALSE,
       nmspc |-> Namespace(FALSE, <<>>, NoInit, NoAttrs)],
      [name |-> "ProgrammableExpr",
       bases |-> <<"_UtilMethodsMixin">>, auto |-> FALSE,
       nmspc |-> Namespace(FALSE, <<>>, NoInit, NoAttrs)],
      [name |-> "PersonPT",
       bases |-> <<"ProgrammableTuple">>, auto |-> TRUE,
       nmspc |-> Namespace(TRUE, <<"full_name">>,
           Func(<<"first_name", "last_name", "age">>,
                <<SetStmt("full_name", Join("last_name", "first_name"))>>),
           PersonAttrs)],
      [name |-> "PersonPE",
       bases |-> <<"ProgrammableExpr">>, auto |-> FALSE,
       nmspc |-> Namespace(TRUE, <<"full_name">>,
           Func(<<"first_name", "last_name", "age">>,
                <<SetStmt("first_name", Local("first_name")),
                  SetStmt("last_name", Local("last_name")),
                  SetStmt("age", Local("age")),
                  SetStmt("full_name", Join("last_name", "first_name"))>>),
           PersonAttrs)],
      [name |-> "JohnsonsPT",
       bases |-> <<"PersonPT">>, auto |-> FALSE,
       nmspc |-> Namespace(FALSE, <<>>,
           Func(<<"first_name", "age">>,
                <<SuperStmt("", <<Local("first_name"), Const(Johnson),
                                  Local("age")>>)>>),
           JohnsonsAttrs)],
      [name |-> "JohnsonsPE",
       bases |-> <<"PersonPE">>, auto |-> FALSE,
       nmspc |-> Namespace(FALSE, <<>>,
           Func(<<"first_name", "age">>,
                <<SuperStmt("", <<Local("first_name"), Const(Johnson),
                                  Local("age")>>)>>),
           JohnsonsAttrs)],
      \* class HeirPT(PersonPT): pass
      [name |-> "HeirPT",
       bases |-> <<"PersonPT">>, auto |-> FALSE,
       nmspc |-> Namespace(FALSE, <<>>, NoInit, NoAttrs)],
      \* a third level: __init__(self, first_name) calls
      \* self.super().__init__(first_name, 1)
      [name |-> "JuniorPE",
       bases |-> <<"JohnsonsPE">>, auto |-> FALSE,
       nmspc |-> Namespace(FALSE, <<>>,
           Func(<<"first_name">>,
                <<SuperStmt("", <<Local("first_name"), Const(<<1>>)>>)>>),
           NoAttrs)],
      \* a third level with the parameters of the second:
      \* __init__(self, first_name, age) calls
      \* self.super().__init__(first_name, age)
      [name |-> "SeniorPT",
       bases |-> <<"JohnsonsPT">>, auto |-> FALSE,
       nmspc |-> Namespace(FALSE, <<>>,
           Func(<<"first_name", "age">>,
                <<SuperStmt("", <<Local("first_name"), Local("age")>>)>>),
           NoAttrs)],
      \* auto_defining=True; __init__(self, first_name) reads the assigned
      \* attribute and writes it again
      [name |-> "TaggedPT",
       bases |-> <<"ProgrammableTuple">>, auto |-> TRUE,
       nmspc |-> Namespace(FALSE, <<>>,
           Func(<<"first_name">>,
                <<SetStmt("first_name", Tag("first_name", Suffix))>>),
           NoAttrs)],
      \* __init__(self, first_name, age) sets first_name only
      [name |-> "LazyPE",
       bases |-> <<"ProgrammableExpr">>, auto |-> FALSE,
       nmspc |-> Namespace(TRUE, <<"full_name">>,
           Func(<<"first_name", "age">>,
                <<SetStmt("first_name", Local("first_name"))>>),
           NoAttrs)],
      \* a class whose field holds another object:
      \* __init__(self, item) sets item and the data field label
      [name |-> "BoxPE",
       bases |-> <<"ProgrammableExpr">>, auto |-> FALSE,
       nmspc |-> Namespace(TRUE, <<"label">>,
           Func(<<"item">>,
                <<SetStmt("item", Local("item")),
                  SetStmt("label", Const(Suffix))>>),
           NoAttrs)],
      \* __init__(self, first_name) reads self.first_name before it sets it
      [name |-> "EagerPE",
       bases |-> <<"ProgrammableExpr">>, auto |-> FALSE,
       nmspc |-> Namespace(TRUE, <<"full_name">>,
           Func(<<"first_name">>,
                <<SetStmt("full_name", Tag("first_name", Suffix)),
                  SetStmt("first_name", Local("first_name"))>>),
           NoAttrs)],
      \* __init__(self, first_name, last_name, age) calls the initializer
      \* of PersonPE, then reads the property sui and the method
      \* is_johnsons: self.age = self.sui; self.a = self.sui;
      \* self.b = self.is_johnsons
      [name |-> "SuiPE",
       bases |-> <<"PersonPE">>, auto |-> FALSE,
       nmspc |-> Namespace(TRUE, <<"a", "b">>,
           Func(<<"first_name", "last_name", "age">>,
                <<SuperStmt("", <<Local("first_name"), Local("last_name"),
                                  Local("age")>>),
                  SetStmt("age", Attr("sui")),
                  SetStmt("a", Attr("sui")),
                  SetStmt("b", Attr("is_johnsons"))>>),
           JohnsonsAttrs)],
      \* a class with a field named as the first parameter of new_meth and
      \* _make: __init__(self, cls) does self.cls = cls
      [name |-> "ClsPE",
       bases |-> <<"ProgrammableExpr">>, auto |-> FALSE,
       nmspc |-> Namespace(FALSE, <<>>,
           Func(<<"cls">>, <<SetStmt("cls", Local("cls"))>>),
           NoAttrs)]
    >>

NoClasses == [n \in {} |-> <<>>]

\* the class table after class statement n has run with the class table T
RunStatement(T, n) ==
    Declare(T, Statements[n].name, Statements[n].bases, Statements[n].nmspc,
            Statements[n].auto)

\* the class table after each class statement in turn
Table1 == RunStatement(NoClasses, 1)
Table2 == RunStatement(Table1, 2)
Table3 == RunStatement(Table2, 3)
Table4 == RunStatement(Table3, 4)
Table5 == RunStatement(Table4, 5)
Table6 == RunStatement(Table5, 6)
Table7 == RunStatement(Table6, 7)
Table8 == RunStatement(Table7, 8)
Table9 == RunStatement(Table8, 9)
Table10 == RunStatement(Table9, 10)
Table11 == RunStatement(Table10, 11)
Table12 == RunStatement(Table11, 12)
Table13 == RunStatement(Table12, 13)
Table14 == RunStatement(Table13, 14)
Table15 == RunStatement(Table14, 15)

\* the two public base classes, as the module defines them on import
BaseClasses == Table2

\* every class of the main specification
AllClasses == Table11

\* the classes of the specification of the utility methods: those of the
\* main specification, a class that holds another object, and classes
\* whose initializers read attributes of the proxy object, and a class
\* with a field named cls
UtilClasses == Table15

\* the position of the class statement of a class: the identity of the
\* class object
ClassId(cls) == CHOOSE i \in 1..Len(Statements) : Statements[i].name = cls

\* the reference to a programmable tuple as a value
PackRecord(r) == <<RecMark, ClassId(r.cls)>> \o PackList(r.content)

\* the programmable tuple a value refers to
UnpackRecord(v) ==
    [cls |-> Statements[v[2]].name,
     content |-> UnpackList(SubSeq(v, 3, Len(v)))]

\* the reference to a dict as a value: the items in the order of the keys,
\* as a dict has no order of its own when compared
PackDict(d) ==
    LET keys == sorted(DOMAIN d)
    IN  <<DictMark>> \o
        PackList([i \in 1..(2 * Len(keys)) |->
                    IF i % 2 = 1 THEN <<Rank(keys[(i + 1) \div 2])>>
                    ELSE d[keys[i \div 2]]])

\* the dict a value refers to
UnpackDict(v) ==
    LET parts == UnpackList(Tail(v))
        n == Len(parts) \div 2
    IN  [k \in {NameOrder[parts[2 * i - 1][1]] : i \in 1..n} |->
            parts[2 * (CHOOSE i \in 1..n :
                          NameOrder[parts[2 * i - 1][1]] = k)]]

(***************************************************************************)
(* Attribute access on the proxy object.                                   *)
(***************************************************************************)
Ok(v) == [exc |-> "", v |-> v]
Fail(e) == [exc |-> e, v |-> <<>>]

RECURSIVE ClassAttr(_, _, _)
\* the class attribute `name` found along the bases of class c: a sequence
\* holding its definition, empty when no class defines it
ClassAttr(T, c, name) ==
    IF c \notin DOMAIN T THEN <<>>
    ELSE IF name \in DOMAIN T[c].nmspc.attrs
         THEN <<T[c].nmspc.attrs[name]>>
         ELSE ClassAttr(T, T[c].parent, name)

IsProperty(T, c, name) ==
    LET a == ClassAttr(T, c, name) IN a # <<>> /\ a[1].k = "succ"

\* a read that gives the empty value for an attribute never set
ProxyGetattrDefault(T, c, d, name) ==
    LET a == ClassAttr(T, c, name)
    IN  IF a # <<>> /\ a[1].k = "succ"
        THEN IF a[1].n \in DOMAIN d THEN [exc |-> "", v |-> <<d[a[1].n][1] + 1>>]
             ELSE [exc |-> "", v |-> <<0>>]
        ELSE IF name \in DOMAIN d THEN [exc |-> "", v |-> d[name]]
        ELSE IF a # <<>> THEN [exc |-> "", v |-> a[1].v]
        ELSE [exc |-> "", v |-> <<>>]

RECURSIVE ProxyGetattr(_, _, _, _)
\* getattr(proxy, name) for the proxy object of class c with attribute
\* dictionary d: a property of the class, then the dictionary, then any
\* other class attribute, else AttributeError
ProxyGetattr(T, c, d, name) ==
    LET a == ClassAttr(T, c, name)
    IN  IF a # <<>> /\ a[1].k = "succ"
        THEN LET x == ProxyGetattr(T, c, d, a[1].n)
             IN  IF x.exc # "" THEN x ELSE Ok(<<x.v[1] + 1>>)
        ELSE IF name \in DOMAIN d THEN Ok(d[name])
        ELSE IF a # <<>> THEN Ok(a[1].v)
        ELSE Fail("AttributeError")

\* setattr(proxy, name, value): a property without setter refuses
ProxySetattr(T, c, d, name, value) ==
    IF IsProperty(T, c, name)
    THEN [exc |-> "AttributeError", d |-> d]
    ELSE [exc |-> "",
          d |-> [n \in DOMAIN d \cup {name} |->
                    IF n = name THEN value ELSE d[n]]]

\* the value of an expression of an initializer body
Eval(T, c, d, locals, e) ==
    CASE e.k = "local" -> Ok(locals[e.n])
      [] e.k = "const" -> Ok(e.v)
      [] e.k = "attr" -> ProxyGetattr(T, c, d, e.n)
      [] e.k = "join" -> Ok(locals[e.m] \o Sep \o locals[e.n])
      [] e.k = "tag" ->
            LET x == ProxyGetattr(T, c, d, e.n)
            IN  IF x.exc # "" THEN x ELSE Ok(x.v \o Sep \o e.v)
      [] OTHER ->
            LET x == ProxyGetattr(T, c, d, e.n)
            IN  IF x.exc # "" THEN x ELSE Ok(<<x.v[1] + 1>>)

(***************************************************************************)
(* Calling an initializer.                                                 *)
(***************************************************************************)
Min(a, b) == IF a < b THEN a ELSE b

PositionOf(seq, x) == CHOOSE i \in 1..Len(seq) : seq[i] = x

\* Python's binding of positional and keyword arguments to the parameters
\* of a function without defaults: TypeError, or the local variables
Bind(argnames, pos, kw) ==
    LET params == Tail(argnames)
    IN  IF \/ Len(pos) > Len(params)
           \/ \E k \in DOMAIN kw : k \notin Range(params)
           \/ \E i \in 1..Len(pos) : params[i] \in DOMAIN kw
           \/ \E i \in (Len(pos) + 1)..Len(params) : params[i] \notin DOMAIN kw
        THEN [exc |-> "TypeError", locals |-> EmptyMap]
        ELSE [exc |-> "",
              locals |-> [p \in Range(params) |->
                            IF PositionOf(params, p) <= Len(pos)
                            THEN pos[PositionOf(params, p)]
                            ELSE kw[p]]]

\* a wrapper that assigns the positional arguments only
AutoDefiningPositional(d, argnames, pos, kw) ==
    LET params == Tail(argnames)
        n == Min(Len(params), Len(pos))
        zipped == {params[i] : i \in 1..n}
    IN  [f \in DOMAIN d \cup zipped |->
            IF f \in zipped THEN pos[PositionOf(params, f)] ELSE d[f]]

\* the wrapper made by _add_auto_defining(init), up to its call of init:
\* for field, value in chain(zip(argnames[1:], args), kwargs.items()):
\*     setattr(self, field, value)
\* The dictionary of the proxy object after the assignments. A wrapper
\* around a wrapper reads the argument names ('self',) and assigns the
\* keyword arguments only, which the inner wrapper assigns again.
_add_auto_defining(d, argnames, pos, kw) ==
    LET params == Tail(argnames)
        n == Min(Len(params), Len(pos))
        zipped == {params[i] : i \in 1..n}
    IN  [f \in DOMAIN d \cup zipped \cup DOMAIN kw |->
            IF f \in DOMAIN kw THEN kw[f]
            ELSE IF f \in zipped THEN pos[PositionOf(params, f)]
            ELSE d[f]]

Frame(fn, locals) == [fn |-> fn, pc |-> 1, locals |-> locals]
NoFrame == <<>>

\* the call init(self, *pos, **kw) of the initializer a proxy class
\* resolves to, on a proxy of class c with dictionary d: the exception, the
\* dictionary afterwards and the invocation started (none for
\* object.__init__)
InvokeInit(T, c, pinit, d, pos, kw) ==
    IF pinit.owner = "object"
    THEN IF pinit.auto
         THEN [exc |-> "AttributeError", d |-> d, frame |-> NoFrame]
         ELSE IF pos # <<>> \/ DOMAIN kw # {}
         THEN [exc |-> "TypeError", d |-> d, frame |-> NoFrame]
         ELSE [exc |-> "", d |-> d, frame |-> NoFrame]
    ELSE
      LET argnames == _get_argnames(T[pinit.owner].nmspc.init)
          d1 == IF pinit.auto
                THEN _add_auto_defining(d, argnames, pos, kw)
                ELSE d
          b == Bind(argnames, pos, kw)
      IN  IF pinit.auto /\ \E f \in DOMAIN d1 : IsProperty(T, c, f)
          THEN [exc |-> "AttributeError", d |-> d, frame |-> NoFrame]
          ELSE IF b.exc # ""
          THEN [exc |-> b.exc, d |-> d1, frame |-> NoFrame]
          ELSE [exc |-> "", d |-> d1,
                frame |-> <<Frame(pinit.owner, b.locals)>>]

RECURSIVE Ancestors(_, _)
\* the class and the programmable tuple classes it derives from, nearest
\* first
Ancestors(T, c) ==
    IF c \notin DOMAIN T THEN <<>> ELSE <<c>> \o Ancestors(T, T[c].parent)

\* patched_super(self, cls=proxy_class).__init__ for a proxy object of
\* class selfcls: self.super is looked up on type(self), so the default
\* cls is the proxy class of selfcls; a programmable tuple class given
\* explicitly stands for its proxy class. The result is the initializer
\* super(cls, self) resolves to, or a TypeError when self is no instance of
\* cls.
patched_super(T, selfcls, cls) ==
    LET start == IF cls = "" THEN selfcls ELSE cls
    IN  IF start \notin Range(Ancestors(T, selfcls))
        THEN [exc |-> "TypeError",
              init |-> [owner |-> "object", auto |-> FALSE]]
        ELSE [exc |-> "",
              init |-> IF T[start].parent \in DOMAIN T
                       THEN T[T[start].parent].proxy_init
                       ELSE [owner |-> "object", auto |-> FALSE]]

(***************************************************************************)
(* Frozen records and the utility functions.                               *)
(***************************************************************************)
\* a reading of the fields that reports the last absent field, not the first
GetFieldValuesLast(fields, query) ==
    LET keys == fields.keys
        absent == {i \in 1..Len(keys) : query[keys[i]].exc # ""}
    IN  IF absent # {}
        THEN [exc |-> "AttributeError",
              field |-> keys[CHOOSE i \in absent : \A j \in absent : i >= j],
              values |-> <<>>]
        ELSE [exc |-> "", field |-> "",
              values |-> [i \in 1..Len(keys) |-> query[keys[i]].v]]

\* _get_field_values(fields, query, non_exist_exc): the values of all the
\* fields in order, or AttributeError naming the first field whose query
\* raises non_exist_exc. query maps each field name to the outcome of the
\* callable on it.
_get_field_values(fields, query) ==
    LET keys == fields.keys
        absent == {i \in 1..Len(keys) : query[keys[i]].exc # ""}
    IN  IF absent # {}
        THEN [exc |-> "AttributeError",
              field |-> keys[CHOOSE i \in absent : \A j \in absent : i <= j],
              values |-> <<>>]
        ELSE [exc |-> "", field |-> "",
              values |-> [i \in 1..Len(keys) |-> query[keys[i]].v]]

\* _make_programmable_tuple(cls, data_values): tuple.__new__(cls, values)
\* for a tuple subclass, else object.__new__(cls) with __content__
\* assigned the tuple of the values
_make_programmable_tuple(cls, data_values) ==
    [cls |-> cls, content |-> data_values]

\* self.__content__[i], i counted from 0
Item(content, i) ==
    IF i + 1 <= Len(content) THEN Ok(content[i + 1]) ELSE Fail("IndexError")

RECURSIVE RecordGetattr(_, _, _)
\* getattr(record, name): an attribute of the class if there is one, else
\* _UtilMethodsMixin.__getattr__: self.__content__[self.__fields__[attr]]
RecordGetattr(T, r, name) ==
    LET a == ClassAttr(T, r.cls, name)
        fields == T[r.cls].fields
    IN  IF a # <<>>
        THEN IF a[1].k = "succ"
             THEN LET x == RecordGetattr(T, r, a[1].n)
                  IN  IF x.exc # "" THEN x ELSE Ok(<<x.v[1] + 1>>)
             ELSE Ok(a[1].v)
        ELSE IF name \notin DOMAIN fields.idx THEN Fail("KeyError")
        ELSE Item(r.content, fields.idx[name])

\* an attribute assignment that stores the value of a field in the slot
\* of a record that is not a tuple
SetattrStores(T, r, attr, value) ==
    IF attr \in DOMAIN T[r.cls].fields.idx /\ ~T[r.cls].is_tuple
          /\ T[r.cls].fields.idx[attr] < Len(r.content)
    THEN [exc |-> "",
          r |-> [r EXCEPT !.content[T[r.cls].fields.idx[attr] + 1] = value]]
    ELSE [exc |-> "AttributeError", r |-> r]

\* _UtilMethodsMixin.__setattr__(self, attr, value): the exception and the
\* record afterwards. object.__setattr__ finds the read-only property
\* __content__ on a tuple subclass and the slot __content__ otherwise.
__setattr__(T, r, attr, value) ==
    IF attr = "__content__"
    THEN IF T[r.cls].is_tuple
         THEN [exc |-> "AttributeError", r |-> r]
         ELSE [exc |-> "", r |-> [r EXCEPT !.content = value]]
    ELSE [exc |-> "AttributeError", r |-> r]

\* self.__content__[0:self.__defining_count__] as a tuple
_defining_values(T, r) ==
    SubSeq(r.content, 1, Min(T[r.cls].defining_count, Len(r.content)))

\* an equality that compares every stored value
EqAllValues(T, self, other) ==
    /\ self.cls = other.cls
    /\ self.content = other.content

RECURSIVE ValueEq(_, _, _)
\* v == w for two values: programmable tuples compare by __eq__, dicts
\* item by item, anything else by value
ValueEq(T, v, w) ==
    IF IsRecordValue(v) /\ IsRecordValue(w)
    THEN LET a == UnpackRecord(v)
             b == UnpackRecord(w)
             x == _defining_values(T, a)
             y == _defining_values(T, b)
         IN  /\ a.cls = b.cls
             /\ Len(x) = Len(y)
             /\ \A i \in 1..Len(x) : ValueEq(T, x[i], y[i])
    ELSE IF IsDictValue(v) /\ IsDictValue(w)
    THEN LET a == UnpackDict(v)
             b == UnpackDict(w)
         IN  /\ DOMAIN a = DOMAIN b
             /\ \A k \in DOMAIN a : ValueEq(T, a[k], b[k])
    ELSE v = w

\* x == y for two tuples of values
TupleEq(T, x, y) ==
    /\ Len(x) = Len(y)
    /\ \A i \in 1..Len(x) : ValueEq(T, x[i], y[i])

\* _UtilMethodsMixin.__eq__(self, other)
__eq__(T, self, other) ==
    /\ self.cls = other.cls
    /\ TupleEq(T, _defining_values(T, self), _defining_values(T, other))

\* self != other. _UtilMethodsMixin defines no __ne__: a subclass of
\* ProgrammableTuple finds tuple.__ne__ before object.__ne__ and compares
\* the whole tuples when the other object is a tuple as well; otherwise,
\* and for a subclass of ProgrammableExpr, object.__ne__ negates __eq__.
__ne__(T, self, other) ==
    IF T[self.cls].is_tuple /\ T[other.cls].is_tuple
    THEN ~TupleEq(T, self.content, other.content)
    ELSE ~__eq__(T, self, other)

\* cls._gen_field_names()
_gen_field_names(T, cls) == T[cls].fields.keys

\* cls._gen_defining_field_names()
_gen_defining_field_names(T, cls) ==
    SubSeq(T[cls].fields.keys, 1,
           Min(T[cls].defining_count, Len(T[cls].fields.keys)))

\* cls._make(**kwargs): a keyword argument named as the parameter cls
\* does not bind
_make(T, cls, kwargs) ==
    LET g == _get_field_values(T[cls].fields,
                 [fn \in Range(T[cls].fields.keys) |->
                     IF fn \in DOMAIN kwargs THEN Ok(kwargs[fn])
                     ELSE Fail("KeyError")])
    IN  IF "cls" \in DOMAIN kwargs
        THEN [exc |-> "TypeError", field |-> "", out |-> <<>>]
        ELSE IF g.exc # ""
        THEN [exc |-> g.exc, field |-> g.field, out |-> <<>>]
        ELSE IF DOMAIN kwargs \ Range(T[cls].fields.keys) # {}
        THEN [exc |-> "ValueError", field |-> "", out |-> <<>>]
        ELSE [exc |-> "", field |-> "",
              out |-> <<_make_programmable_tuple(cls, g.values)>>]

\* self._replace(**kwargs): a keyword argument named as the parameter
\* self does not bind
_replace(T, self, kwargs) ==
    LET names == Range(_gen_field_names(T, self.cls))
        got == [fn \in names |->
                   IF fn \in DOMAIN kwargs THEN Ok(kwargs[fn])
                   ELSE RecordGetattr(T, self, fn)]
        bad == {fn \in names : got[fn].exc # ""}
        keys == _gen_field_names(T, self.cls)
    IN  IF "self" \in DOMAIN kwargs
        THEN [exc |-> "TypeError", field |-> "", out |-> <<>>]
        ELSE IF bad # {}
        THEN [exc |->
                got[keys[CHOOSE i \in 1..Len(keys) :
                           /\ keys[i] \in bad
                           /\ \A j \in 1..(i - 1) : keys[j] \notin bad]].exc,
              field |-> "", out |-> <<>>]
        ELSE IF DOMAIN kwargs \ names # {}
        THEN [exc |-> "ValueError", field |-> "", out |-> <<>>]
        ELSE _make(T, self.cls, [fn \in names |-> got[fn].v])

RECURSIVE HashSeq(_, _)
\* the hash of a tuple from the hashes of its items: a deterministic mix
HashSeq(hs, acc) ==
    IF hs = <<>> THEN acc
    ELSE HashSeq(Tail(hs), (acc * 31 + Head(hs) + 1) % HashSpace)

\* the hash of a scalar value
HashValue(v) == HashSeq(v, 7)

\* the hash of a class object: by identity
HashClass(T, cls) ==
    (CHOOSE i \in 1..Len(Statements) : Statements[i].name = cls) * 17

\* a hash over every stored value
HashAllValues(T, self) ==
    HashSeq(<<HashClass(T, self.cls)>> \o
            [i \in 1..Len(self.content) |-> HashValue(self.content[i])], 3)

\* _UtilMethodsMixin.__hash__(self):
\* hash((self.__class__, ) + self._defining_values)
__hash__(T, self) ==
    LET dv == _defining_values(T, self)
    IN  HashSeq(<<HashClass(T, self.cls)>> \o
                [i \in 1..Len(dv) |-> HashValue(dv[i])], 3)

(***************************************************************************)
(* The utility methods that construct.                                     *)
(***************************************************************************)
\* arguments that leave the keyword arguments out
UpdateArgsOwn(T, self, kwargs) ==
    SubSeq(self.content, 1,
           Min(Len(_gen_defining_field_names(T, self.cls)), Len(self.content)))

\* the positional arguments _update passes to the class:
\* map(kwargs.pop, self._gen_defining_field_names(), self.__content__)
UpdateArgs(T, self, kwargs) ==
    LET names == _gen_defining_field_names(T, self.cls)
    IN  [i \in 1..Min(Len(names), Len(self.content)) |->
            IF names[i] \in DOMAIN kwargs THEN kwargs[names[i]]
            ELSE self.content[i]]

\* a check that lets every keyword argument pass
NothingLeft(T, self, kwargs) == {}

\* the keyword arguments _update has left when the class has returned:
\* those kwargs.pop has not taken
UpdateLeft(T, self, kwargs) ==
    LET names == _gen_defining_field_names(T, self.cls)
    IN  DOMAIN kwargs \
            {names[i] : i \in 1..Min(Len(names), Len(self.content))}

(***************************************************************************)
(* Dictionary forming and parsing.                                         *)
(***************************************************************************)
\* the first name of the list that is in the set
FirstIn(names, S) ==
    names[CHOOSE i \in 1..Len(names) :
             /\ names[i] \in S
             /\ \A j \in 1..(i - 1) : names[j] \notin S]

RECURSIVE _asdict(_, _, _, _)
\* self._asdict(full, class_tags): the exception and the dict. class_tags
\* maps classes to tags; the empty mapping stands for every false value.
_asdict(T, self, full, class_tags) ==
    LET included_fields == IF full THEN _gen_field_names(T, self.cls)
                           ELSE _gen_defining_field_names(T, self.cls)
        val == [fn \in Range(included_fields) |->
                   RecordGetattr(T, self, fn)]
        sub == [fn \in Range(included_fields) |->
                   IF val[fn].exc # "" THEN [exc |-> val[fn].exc, d |-> EmptyMap]
                   ELSE IF IsRecordValue(val[fn].v)
                   THEN _asdict(T, UnpackRecord(val[fn].v), full, class_tags)
                   ELSE [exc |-> "", d |-> EmptyMap]]
        bad == {fn \in Range(included_fields) : sub[fn].exc # ""}
        dict_ == [fn \in Range(included_fields) |->
                    IF IsRecordValue(val[fn].v) THEN PackDict(sub[fn].d)
                    ELSE val[fn].v]
    IN  IF bad # {}
        THEN [exc |-> sub[FirstIn(included_fields, bad)].exc, d |-> EmptyMap]
        ELSE IF DOMAIN class_tags = {} THEN [exc |-> "", d |-> dict_]
        ELSE IF self.cls \notin DOMAIN class_tags
        THEN [exc |-> "KeyError", d |-> EmptyMap]
        ELSE [exc |-> "",
              d |-> [k \in DOMAIN dict_ \cup {"__class__"} |->
                       IF k = "__class__" THEN class_tags[self.cls]
                       ELSE dict_[k]]]

\* a resolution that takes the class the method is called on when the
\* tag is not in the table
ResolveOrDefault(cls, dict_, class_tags, top) ==
    IF "__class__" \notin DOMAIN dict_
    THEN [exc |-> "", cls |-> cls, plain |-> ~top]
    ELSE IF Len(class_tags) = 0 THEN [exc |-> "", cls |-> cls, plain |-> FALSE]
    ELSE IF dict_["__class__"] \in DOMAIN class_tags[1]
    THEN [exc |-> "", cls |-> class_tags[1][dict_["__class__"]],
          plain |-> FALSE]
    ELSE [exc |-> "", cls |-> cls, plain |-> FALSE]

\* the first part of cls._load_from_dict(dict_, full, class_tags, top): the
\* class of the object, or the exception; plain when a copy of the dict is
\* returned as it is. class_tags is empty for None, else it holds the
\* mapping from tags to classes.
ResolveClass(cls, dict_, class_tags, top) ==
    IF "__class__" \notin DOMAIN dict_
    THEN [exc |-> "", cls |-> cls, plain |-> ~top]
    ELSE IF Len(class_tags) = 0
    THEN [exc |-> "TypeError", cls |-> "", plain |-> FALSE]
    ELSE IF dict_["__class__"] \in DOMAIN class_tags[1]
    THEN [exc |-> "", cls |-> class_tags[1][dict_["__class__"]],
          plain |-> FALSE]
    ELSE [exc |-> "ValueError", cls |-> "", plain |-> FALSE]

\* one activation of _load_from_dict: the class resolved, the dict, and
\* the objects loaded from the dicts among its values so far
LoadFrame(cls, dict_) == [cls |-> cls, dict |-> dict_, vals |-> EmptyMap]

\* the keys _load_from_dict reads of the dict of an activation, in order:
\* every key but the tag when full, else the defining fields of the class
LoadNames(T, fr, full) ==
    IF full THEN sorted(DOMAIN fr.dict \ {"__class__"})
    ELSE _gen_defining_field_names(T, fr.cls)

\* keys that wait for a missing defining field only
LoadPendingMissing(T, fr, full) ==
    {fn \in Range(LoadNames(T, fr, full)) : fn \notin DOMAIN fr.dict}

\* the keys the activation cannot pass yet: a defining field the dict does
\* not give, or a dict with a tag that is not loaded yet
LoadPending(T, fr, full) ==
    {fn \in Range(LoadNames(T, fr, full)) :
        \/ fn \notin DOMAIN fr.dict
        \/ /\ IsDictValue(fr.dict[fn])
           /\ fn \notin DOMAIN fr.vals
           /\ "__class__" \in DOMAIN UnpackDict(fr.dict[fn])}

\* values that are the entries of the dict as they are
LoadValuesRaw(T, fr, full) ==
    [fn \in Range(LoadNames(T, fr, full)) |-> fr.dict[fn]]

\* the values the activation has read: an object loaded, a copy of a dict
\* without tag, or the value itself
LoadValues(T, fr, full) ==
    [fn \in Range(LoadNames(T, fr, full)) |->
        IF fn \in DOMAIN fr.vals THEN fr.vals[fn] ELSE fr.dict[fn]]

(***************************************************************************)
(* The state machine of the main specification: the caller constructs      *)
(* records, keeps or drops what a call returns, and calls the utility      *)
(* methods on the records it holds.                                        *)
(***************************************************************************)
\* args: the arguments of a constructor call as Python binds them to the
\* parameters of the initializer; kw: the keyword arguments of _replace,
\* _update and _make; stmt: the class statement being executed; full,
\* tags, table and dict: the arguments of _asdict and _load_from_dict;
\* on: the class _load_from_dict is called on, cls being the class under
\* construction; work: the activations of _load_from_dict
NoCall ==
    [op |-> "", cls |-> "", args |-> EmptyMap, kw |-> EmptyMap, target |-> 0,
     before |-> <<>>, attr |-> "", value |-> <<>>, stmt |-> <<>>,
     full |-> FALSE, tags |-> EmptyMap, table |-> <<>>, dict |-> <<>>,
     on |-> "", work |-> <<>>]

\* out: the programmable tuple returned; dict: the dict returned
NoRet ==
    [exc |-> "", field |-> "", out |-> <<>>, phase |-> "", dict |-> <<>>]

Raise(e, f, phase) == [NoRet EXCEPT !.exc = e, !.field = f, !.phase = phase]

\* the values a caller passes to a constructor, in order
ArgSeqs ==
    {<<>>, <<<<1>>>>, <<<<2>>>>, <<<<1>>, <<1>>>>, <<<<2>>, <<1>>>>,
     <<<<1>>, <<1>>, <<1>>>>, <<<<1>>, <<1>>, <<2>>>>, <<<<2>>, <<1>>, <<1>>>>,
     <<<<1>>, <<1>>, <<1>>, <<1>>>>}

\* the names a caller overrides in _replace
KwNames == {"age", "full_name", "a"}

\* the keyword arguments of a call of _replace
KwMaps ==
    UNION {[S -> Val] : S \in {X \in SUBSET KwNames : Cardinality(X) <= MaxKw}}

\* the parameters a constructor call of class c has to supply
CtorParams(T, c) ==
    IF T[c].proxy_init.owner = "object" THEN <<>>
    ELSE Tail(_get_argnames(T[T[c].proxy_init.owner].nmspc.init))

\* a constructor call c(*pos, **kw) that passes the values vals in order,
\* the last nkw of them by the names of the last parameters
PosOf(vals, nkw) == SubSeq(vals, 1, Len(vals) - nkw)

KwOf(T, c, vals, nkw) ==
    LET params == CtorParams(T, c)
        n == Min(nkw, Len(params))
    IN  [p \in {params[i] : i \in (Len(params) - n + 1)..Len(params)} |->
            vals[Len(vals) - (Len(params) - PositionOf(params, p))]]

\* the tuples a caller tries to store as the content of a record
WriteValues == {<<>>, <<<<2>>, <<2>>, <<2>>, <<2>>>>}

\* the attribute names a caller tries to assign
WriteNames ==
    {"age", "first_name", "full_name", "last_name", "a", "__content__"}

Init ==
    /\ classes = AllClasses
    /\ records = <<>>
    /\ pc = "idle"
    /\ call = NoCall
    /\ proxy = EmptyMap
    /\ stack = <<>>
    /\ trace = <<>>
    /\ ret = NoRet

\* new_meth(cls, *args, **kwargs), up to the first statement of the
\* initializer: proxy = proxy_class(*args, **kwargs). cl describes the
\* call of the caller the class is called in. A keyword argument named
\* as the parameter cls of new_meth does not bind.
Begin(c, pos, kw, cl) ==
    LET r == IF "cls" \in DOMAIN kw
             THEN [exc |-> "TypeError", d |-> EmptyMap, frame |-> NoFrame]
             ELSE InvokeInit(classes, c, classes[c].proxy_init, EmptyMap,
                             pos, kw)
    IN  /\ trace' = <<classes[c].proxy_init.owner>>
        /\ stack' = r.frame
        /\ IF r.exc # ""
           THEN /\ pc' = "done"
                /\ ret' = Raise(r.exc, "", "call")
                /\ proxy' = EmptyMap
                /\ call' = [cl EXCEPT !.cls = c]
           ELSE /\ pc' = IF r.frame = <<>> THEN "harvest" ELSE "init"
                /\ ret' = NoRet
                /\ proxy' = r.d
                /\ call' = [cl EXCEPT !.cls = c,
                                      !.args = IF r.frame = <<>> THEN EmptyMap
                                               ELSE r.frame[1].locals]

\* the caller calls the class: cls(*pos, **kw)
New(c, pos, kw) ==
    /\ pc = "idle"
    /\ Begin(c, pos, kw, [NoCall EXCEPT !.op = "new"])
    /\ UNCHANGED <<classes, records>>

Top == stack[Len(stack)]

TopBody == classes[Top.fn].nmspc.init.body

\* an exception leaves the initializer: it propagates to the caller of the
\* constructor
Propagate(e) ==
    /\ pc' = "done"
    /\ ret' = Raise(e, "", "init")
    /\ UNCHANGED <<stack, proxy, trace>>

\* the statement self.field = expr of the running initializer
StepSet ==
    /\ pc = "init"
    /\ Top.pc <= Len(TopBody)
    /\ TopBody[Top.pc].op = "set"
    /\ LET st == TopBody[Top.pc]
           x == Eval(classes, call.cls, proxy, Top.locals, st.expr)
           w == ProxySetattr(classes, call.cls, proxy, st.field, x.v)
       IN  IF x.exc # "" THEN Propagate(x.exc)
           ELSE IF w.exc # "" THEN Propagate(w.exc)
           ELSE /\ proxy' = w.d
                /\ stack' = [stack EXCEPT ![Len(stack)].pc = @ + 1]
                /\ UNCHANGED <<pc, ret, trace>>
    /\ UNCHANGED <<classes, records, call>>

\* the statement self.super(cls).__init__(*args) of the running initializer
StepSuper ==
    /\ pc = "init"
    /\ Top.pc <= Len(TopBody)
    /\ TopBody[Top.pc].op = "super"
    /\ LET st == TopBody[Top.pc]
           xs == [i \in 1..Len(st.args) |->
                    Eval(classes, call.cls, proxy, Top.locals, st.args[i])]
           s == patched_super(classes, call.cls, st.cls)
           r == InvokeInit(classes, call.cls, s.init, proxy,
                           [i \in 1..Len(xs) |-> xs[i].v], EmptyMap)
       IN  IF \E i \in 1..Len(xs) : xs[i].exc # ""
           THEN Propagate("AttributeError")
           ELSE IF s.exc # "" THEN Propagate(s.exc)
           ELSE IF Len(stack) >= RecursionLimit
           THEN Propagate("RecursionError")
           ELSE /\ trace' = Append(trace, s.init.owner)
                /\ proxy' = r.d
                /\ IF r.exc # ""
                   THEN /\ pc' = "done"
                        /\ ret' = Raise(r.exc, "", "init")
                        /\ stack' = stack
                   ELSE /\ stack' =
                            [stack EXCEPT ![Len(stack)].pc = @ + 1] \o r.frame
                        /\ UNCHANGED <<pc, ret>>
    /\ UNCHANGED <<classes, records, call>>

\* the running initializer returns; when the outermost one does, the proxy
\* object is initialized
StepReturn ==
    /\ pc = "init"
    /\ Top.pc > Len(TopBody)
    /\ stack' = SubSeq(stack, 1, Len(stack) - 1)
    /\ pc' = IF Len(stack) = 1 THEN "harvest" ELSE "init"
    /\ UNCHANGED <<classes, records, call, proxy, trace, ret>>

\* new_meth after the proxy is initialized: the values of all the fields
\* are read from the proxy and the programmable tuple is made. The
\* __init__ Python then calls on the new object is the one made by
\* _form_init_method, which does nothing on a programmable tuple. The
\* object goes to the caller, or to the utility method that called the
\* class.
Harvest ==
    /\ pc = "harvest"
    /\ LET cls == call.cls
           g == _get_field_values(classes[cls].fields,
                    [fn \in Range(classes[cls].fields.keys) |->
                        ProxyGetattr(classes, cls, proxy, fn)])
       IN  ret' = IF g.exc # "" THEN Raise(g.exc, g.field, "harvest")
                  ELSE [NoRet EXCEPT
                          !.out = <<_make_programmable_tuple(cls, g.values)>>,
                          !.phase = "harvest"]
    /\ pc' = IF call.op = "new" \/ \E fn \in Range(classes[call.cls].fields.keys) :
                   ProxyGetattr(classes, call.cls, proxy, fn).exc # ""
             THEN "done" ELSE "built"
    /\ UNCHANGED <<classes, records, call, proxy, stack, trace>>

\* the caller keeps a reference to the record the call returned
Keep ==
    /\ pc = "done"
    /\ ret.out # <<>>
    /\ Len(records) < MaxRecords
    /\ records' = Append(records, ret.out[1])
    /\ pc' = "idle"
    /\ call' = NoCall /\ ret' = NoRet
    /\ proxy' = EmptyMap /\ stack' = <<>> /\ trace' = <<>>
    /\ UNCHANGED classes

\* the caller goes on without the result: the exception is handled, or
\* the returned object is dropped
Drop ==
    /\ pc = "done"
    /\ pc' = "idle"
    /\ call' = NoCall /\ ret' = NoRet
    /\ proxy' = EmptyMap /\ stack' = <<>> /\ trace' = <<>>
    /\ UNCHANGED <<classes, records>>

\* record.attr = value on a record the caller holds
SetAttr(i, attr, value) ==
    /\ pc = "idle"
    /\ LET w == __setattr__(classes, records[i], attr, value)
       IN  /\ records' = [records EXCEPT ![i] = w.r]
           /\ ret' = Raise(w.exc, "", "call")
    /\ call' = [NoCall EXCEPT !.op = "setattr", !.cls = records[i].cls,
                              !.target = i, !.before = <<records[i]>>,
                              !.attr = attr, !.value = value]
    /\ pc' = "done"
    /\ UNCHANGED <<classes, proxy, stack, trace>>

\* record._replace(**kwargs) on a record the caller holds
Replace(i, kwargs) ==
    /\ pc = "idle"
    /\ LET x == _replace(classes, records[i], kwargs)
       IN  ret' = [NoRet EXCEPT !.exc = x.exc, !.field = x.field,
                                !.out = x.out, !.phase = "call"]
    /\ call' = [NoCall EXCEPT !.op = "replace", !.cls = records[i].cls,
                              !.target = i, !.before = <<records[i]>>,
                              !.kw = kwargs]
    /\ pc' = "done"
    /\ UNCHANGED <<classes, records, proxy, stack, trace>>

Next ==
    \/ \E c \in DOMAIN classes, vals \in ArgSeqs :
           \E nkw \in 0..Min(MaxKw,
                              Min(Len(vals), Len(CtorParams(classes, c)))) :
               New(c, PosOf(vals, nkw), KwOf(classes, c, vals, nkw))
    \/ StepSet
    \/ StepSuper
    \/ StepReturn
    \/ Harvest
    \/ Keep
    \/ Drop
    \/ \E i \in 1..Len(records), attr \in WriteNames :
           \E v \in IF attr = "__content__" THEN WriteValues ELSE Val :
               SetAttr(i, attr, v)
    \/ \E i \in 1..Len(records), kw \in KwMaps : Replace(i, kw)

Spec == Init /\ [][Next]_vars

(***************************************************************************)
(* The specification of the utility methods: the caller holds one record   *)
(* at a time. It constructs or makes a record while it holds none, puts    *)
(* the record it holds into a box, and calls _update, _replace, _make,     *)
(* _asdict and _load_from_dict on what it holds.                           *)
(***************************************************************************)
\* the values a caller passes to a constructor, in order
UtilArgs == {<<<<1>>>>, <<<<1>>, <<1>>>>, <<<<1>>, <<1>>, <<1>>>>}

\* the keyword arguments of a call of _update or _replace
UtilKwMaps ==
    {kw \in KwMaps : \A k \in DOMAIN kw : kw[k] = <<2>>}
        \cup {"cls" :> <<2>>, "self" :> <<2>>}

\* a key no class of the specification has as a field
Bogus == "c"

\* the keyword arguments handed to cls._make: every field, every field but
\* one, and either with a key that is no field
MakeMaps(T, c) ==
    LET names == Range(_gen_field_names(T, c))
        short == {names} \cup {names \ {f} : f \in names}
        keysets == short \cup {S \cup {Bogus} : S \in short}
    IN  {[k \in S |-> IF k = "first_name" THEN <<2>> ELSE <<1>>] :
            S \in keysets}

\* the tag of a class
TagOf(c) == <<20 + ClassId(c)>>

\* the tag of every class, for _asdict
ClassTags == [c \in DOMAIN classes |-> TagOf(c)]

\* the class of every tag, for _load_from_dict
TagClasses ==
    [t \in {TagOf(c) : c \in DOMAIN classes} |->
        CHOOSE c \in DOMAIN classes : TagOf(c) = t]

\* the class_tags arguments of _asdict: none, and the tags
EncodeTags == {EmptyMap, ClassTags}

\* the class_tags arguments of _load_from_dict: none, the classes of all
\* the tags, and the class of the tag of the box alone
DecodeTables ==
    {<<>>, <<TagClasses>>, <<[t \in {TagOf("BoxPE")} |-> "BoxPE"]>>}

\* dicts written by hand: the defining field of a box without a tag and
\* with the tag of the box, a tag no table knows at the top and below it,
\* and a dict without the defining field
CraftedDicts ==
    {("item" :> <<1>>),
     ("item" :> <<1>>) @@ ("__class__" :> TagOf("BoxPE")),
     ("item" :> <<1>>) @@ ("__class__" :> <<5>>),
     ("item" :> PackDict("__class__" :> <<5>>)),
     ("label" :> <<1>>)}

\* no field of the record holds another object
Flat(r) ==
    \A i \in 1..Len(r.content) :
        ~IsRecordValue(r.content[i]) /\ ~IsDictValue(r.content[i])

InitUtil ==
    /\ classes = UtilClasses
    /\ records = <<>>
    /\ pc = "idle"
    /\ call = NoCall
    /\ proxy = EmptyMap
    /\ stack = <<>>
    /\ trace = <<>>
    /\ ret = NoRet

\* the caller binds its variable to the record a constructor or _make
\* returned
Assign ==
    /\ pc = "done"
    /\ ret.out # <<>>
    /\ call.op \in {"new", "make"}
    /\ call.before = <<>>
    /\ records' = <<ret.out[1]>>
    /\ pc' = "idle"
    /\ call' = NoCall /\ ret' = NoRet
    /\ proxy' = EmptyMap /\ stack' = <<>> /\ trace' = <<>>
    /\ UNCHANGED classes

\* the caller lets go of the record it holds
Forget ==
    /\ pc = "idle"
    /\ records # <<>>
    /\ records' = <<>>
    /\ UNCHANGED <<classes, pc, call, proxy, stack, trace, ret>>

\* cls._make(**kwargs); before holds the record the keyword arguments were
\* taken from with _asdict(full=True, class_tags=tags), when they were
Make(c, kwargs, before, tags) ==
    /\ pc = "idle"
    /\ LET x == _make(classes, c, kwargs)
       IN  ret' = [NoRet EXCEPT !.exc = x.exc, !.field = x.field,
                                !.out = x.out, !.phase = "call"]
    /\ call' = [NoCall EXCEPT !.op = "make", !.cls = c, !.kw = kwargs,
                              !.before = before, !.full = TRUE,
                              !.tags = tags]
    /\ pc' = "done"
    /\ UNCHANGED <<classes, records, proxy, stack, trace>>

\* record._update(**kwargs) on a record the caller holds, up to the first
\* statement of the initializer; a keyword argument named as the
\* parameter self does not bind
Update(i, kwargs) ==
    /\ pc = "idle"
    /\ LET cl == [NoCall EXCEPT !.op = "update", !.target = i,
                                !.before = <<records[i]>>, !.kw = kwargs]
       IN  IF "self" \in DOMAIN kwargs
           THEN /\ pc' = "done"
                /\ ret' = Raise("TypeError", "", "call")
                /\ call' = [cl EXCEPT !.cls = records[i].cls]
                /\ UNCHANGED <<proxy, stack, trace>>
           ELSE Begin(records[i].cls, UpdateArgs(classes, records[i], kwargs),
                      EmptyMap, cl)
    /\ UNCHANGED <<classes, records>>

\* record._asdict(full, class_tags) on a record the caller holds
AsDict(i, full, tags) ==
    /\ pc = "idle"
    /\ LET x == _asdict(classes, records[i], full, tags)
       IN  ret' = [NoRet EXCEPT !.exc = x.exc, !.phase = "call",
                                !.dict = IF x.exc = "" THEN <<x.d>> ELSE <<>>]
    /\ call' = [NoCall EXCEPT !.op = "asdict", !.cls = records[i].cls,
                              !.target = i, !.before = <<records[i]>>,
                              !.full = full, !.tags = tags]
    /\ pc' = "done"
    /\ UNCHANGED <<classes, records, proxy, stack, trace>>

\* cls._load_from_dict(dict_, full, class_tags), up to the class of the
\* object; before holds the record the dict was taken from with
\* _asdict(full, class_tags=tags), when it was
LoadFromDict(c, dict_, full, table, before, tags) ==
    /\ pc = "idle"
    /\ LET x == ResolveClass(c, dict_, table, TRUE)
           cl == [NoCall EXCEPT !.op = "load", !.cls = c, !.on = c,
                                !.dict = <<dict_>>, !.full = full,
                                !.table = table, !.before = before,
                                !.tags = tags]
       IN  IF x.exc # ""
           THEN /\ pc' = "done"
                /\ ret' = Raise(x.exc, "", "call")
                /\ call' = cl
           ELSE /\ pc' = "load"
                /\ ret' = NoRet
                /\ call' = [cl EXCEPT !.cls = x.cls,
                                      !.work = <<LoadFrame(x.cls, dict_)>>]
    /\ UNCHANGED <<classes, records, proxy, stack, trace>>

\* the innermost activation of _load_from_dict goes on: it stops at a
\* defining field the dict does not give, it loads the next dict that has
\* a tag, or it has every value and makes the object of its class, with
\* _make when full and by calling the class otherwise
LoadStep ==
    /\ pc = "load"
    /\ LET fr == call.work[Len(call.work)]
           names == LoadNames(classes, fr, call.full)
           pending == LoadPending(classes, fr, call.full)
           fn == FirstIn(names, pending)
           x == ResolveClass(call.on, UnpackDict(fr.dict[fn]), call.table,
                             FALSE)
           values == LoadValues(classes, fr, call.full)
           m == _make(classes, fr.cls, values)
       IN  IF pending # {}
           THEN /\ IF fn \notin DOMAIN fr.dict
                   THEN /\ pc' = "done"
                        /\ ret' = Raise("ValueError", fn, "call")
                        /\ call' = call
                   ELSE IF x.exc # ""
                   THEN /\ pc' = "done"
                        /\ ret' = Raise(x.exc, "", "call")
                        /\ call' = call
                   ELSE /\ pc' = "load"
                        /\ ret' = NoRet
                        /\ call' =
                             [call EXCEPT
                                !.cls = x.cls,
                                !.work = Append(@, LoadFrame(x.cls,
                                             UnpackDict(fr.dict[fn])))]
                /\ UNCHANGED <<proxy, stack, trace>>
           ELSE IF call.full
           THEN /\ pc' = IF m.exc # "" THEN "done" ELSE "built"
                /\ ret' = [NoRet EXCEPT !.exc = m.exc, !.field = m.field,
                                        !.out = m.out, !.phase = "call"]
                /\ UNCHANGED <<call, proxy, stack, trace>>
           ELSE Begin(fr.cls, <<>>, values, call)
    /\ UNCHANGED <<classes, records>>

\* the object made goes back to the utility method that made it: _update
\* looks at the keyword arguments left; an activation of _load_from_dict
\* returns the object, to the caller or to the activation that loads it
\* as a value
Return ==
    /\ pc = "built"
    /\ IF call.op = "update"
       THEN /\ pc' = "done"
            /\ ret' = IF UpdateLeft(classes, call.before[1], call.kw) # {}
                       THEN Raise("ValueError", "", "call")
                       ELSE ret
            /\ UNCHANGED <<call, proxy, stack, trace>>
       ELSE IF Len(call.work) = 1
       THEN /\ pc' = "done"
            /\ UNCHANGED <<ret, call, proxy, stack, trace>>
       ELSE LET parent == call.work[Len(call.work) - 1]
                fn == FirstIn(LoadNames(classes, parent, call.full),
                              LoadPending(classes, parent, call.full))
                loaded == [k \in DOMAIN parent.vals \cup {fn} |->
                             IF k = fn THEN PackRecord(ret.out[1])
                             ELSE parent.vals[k]]
            IN  /\ pc' = "load"
                /\ ret' = NoRet
                /\ call' = [call EXCEPT
                               !.cls = parent.cls,
                               !.work = Append(SubSeq(@, 1, Len(@) - 2),
                                               [parent EXCEPT
                                                  !.vals = loaded])]
                /\ proxy' = EmptyMap /\ stack' = <<>> /\ trace' = <<>>
    /\ UNCHANGED <<classes, records>>

NextUtil ==
    \/ /\ records = <<>>
       /\ \E c \in DOMAIN classes, pos \in UtilArgs : New(c, pos, EmptyMap)
    \/ /\ records # <<>>
       /\ Flat(records[1])
       /\ New("BoxPE", <<PackRecord(records[1])>>, EmptyMap)
    \/ StepSet
    \/ StepSuper
    \/ StepReturn
    \/ Harvest
    \/ LoadStep
    \/ Return
    \/ Assign
    \/ Drop
    \/ Forget
    \/ /\ records = <<>>
       /\ \E c \in DOMAIN classes : \E kw \in MakeMaps(classes, c) :
              Make(c, kw, <<>>, EmptyMap)
    \/ \E i \in 1..Len(records), tags \in EncodeTags :
           LET e == _asdict(classes, records[i], TRUE, tags)
           IN  /\ e.exc = ""
               /\ Make(records[i].cls, e.d, <<records[i]>>, tags)
    \/ \E i \in 1..Len(records) : SetAttr(i, "__content__", <<>>)
    \/ \E i \in 1..Len(records), kw \in UtilKwMaps : Update(i, kw)
    \/ \E i \in 1..Len(records), kw \in UtilKwMaps : Replace(i, kw)
    \/ \E i \in 1..Len(records), full \in BOOLEAN, tags \in EncodeTags :
           AsDict(i, full, tags)
    \/ \E i \in 1..Len(records), full \in BOOLEAN, tags \in EncodeTags :
           \E table \in DecodeTables :
               LET e == _asdict(classes, records[i], full, tags)
               IN  /\ e.exc = ""
                   /\ LoadFromDict(records[i].cls, e.d, full, table,
                                   <<records[i]>>, tags)
    \/ /\ records = <<>>
       /\ \E c \in {"BoxPE", "PersonPE"}, d \in CraftedDicts :
              \E full \in BOOLEAN, table \in DecodeTables :
                  LoadFromDict(c, d, full, table, <<>>, EmptyMap)

SpecUtil == InitUtil /\ [][NextUtil]_vars

(***************************************************************************)
(* The specification of class declaration: class statements are executed   *)
(* one under the other, starting from the two public base classes.         *)
(***************************************************************************)
\* the names of the classes declared, in order
DeclNames == <<"K1", "K2", "K3", "K4">>

\* the parameter lists of the initializers declared
ParamLists == {<<>>, <<"b", "a">>, <<"c">>}

\* the '__init__' entries of the namespaces
DeclInits == {NoInit, NonFunctionInit} \cup {Func(ps, <<>>) : ps \in ParamLists}

\* the '__data_fields__' entries of the namespaces: absent, or a list
DeclData == {<<FALSE, <<>>>>, <<TRUE, <<"a">>>>, <<TRUE, <<"c", "b", "c">>>>}

\* the user classes declared so far
Declared == Cardinality(DOMAIN classes \ DOMAIN BaseClasses)

\* the base lists of the next class statement: a record class alone, a
\* record class after a plain class, or a plain class alone
DeclBases ==
    LET parents == IF Declared = 0 THEN DOMAIN BaseClasses
                   ELSE {DeclNames[Declared]}
    IN  {<<P>> : P \in parents} \cup {<<"Mixin", P>> : P \in parents}
            \cup {<<"Mixin">>}

InitDecl ==
    /\ classes = BaseClasses
    /\ records = <<>>
    /\ pc = "idle"
    /\ call = NoCall
    /\ proxy = EmptyMap
    /\ stack = <<>>
    /\ trace = <<>>
    /\ ret = NoRet

\* the class statement `class name(*bases): ...` with the given namespace:
\* ProgrammableTupleMeta.__new__ makes the class or raises
ClassStatement(bases, data, init) ==
    /\ pc = "idle"
    /\ Declared < MaxDepth
    /\ LET name == DeclNames[Declared + 1]
           nmspc == Namespace(data[1], data[2], init, NoAttrs)
           r == ProgrammableTupleMeta_new(classes, name, bases, nmspc, FALSE)
       IN  /\ classes' = Declare(classes, name, bases, nmspc, FALSE)
           /\ call' = [NoCall EXCEPT !.op = "class", !.cls = name,
                          !.stmt = <<[bases |-> bases, nmspc |-> nmspc]>>]
           /\ ret' = Raise(r.exc, "", "class")
    /\ pc' = "done"
    /\ UNCHANGED <<records, proxy, stack, trace>>

NextDecl ==
    \/ \E bases \in DeclBases, data \in DeclData, init \in DeclInits :
           ClassStatement(bases, data, init)
    \/ Drop

SpecDecl == InitDecl /\ [][NextDecl]_vars

(***************************************************************************)
(* Properties of the main specification.                                   *)
(***************************************************************************)
\* the records the caller can reach: those it holds and the one returned
Held == Range(records) \cup Range(ret.out)

FieldNames(c) == classes[c].fields.keys

\* the values of the defining fields of a record, each read by its name
DefiningOf(r) ==
    [i \in 1..classes[r.cls].defining_count |->
        RecordGetattr(classes, r, FieldNames(r.cls)[i])]

\* a finished _replace that overrode data fields only and returned a record
ReplacedDataOnly ==
    /\ pc = "done"
    /\ call.op = "replace"
    /\ ret.out # <<>>
    /\ DOMAIN call.kw # {}
    /\ DOMAIN call.kw \cap Range(_gen_defining_field_names(classes, call.cls))
          = {}

\* C1: an assignment to a field of a frozen record, tuple-based or not,
\* fails with AttributeError and leaves every value of the record as it was
C1_FieldWriteRefused ==
    (pc = "done" /\ call.op = "setattr"
        /\ call.attr \in Range(FieldNames(call.cls)))
    => /\ ret.exc = "AttributeError"
       /\ records[call.target] = call.before[1]

\* a field write on a record that is not a tuple has been attempted
C1_Witness ==
    /\ pc = "done"
    /\ call.op = "setattr"
    /\ call.attr = "full_name"
    /\ ~classes[call.cls].is_tuple
    /\ Len(records[call.target].content) = Len(FieldNames(call.cls))
    /\ ret.exc = "AttributeError"

\* C2: two records are equal exactly when they have the same class and
\* equal values of the defining fields; the data fields do not count, so
\* the copy made by _replace on data fields equals the original
C2_Equality ==
    /\ \A a, b \in Held :
          __eq__(classes, a, b)
              <=> (a.cls = b.cls /\ DefiningOf(a) = DefiningOf(b))
    /\ ReplacedDataOnly => __eq__(classes, call.before[1], ret.out[1])

\* a copy that differs from its original in a data field, and compares equal
C2_Witness ==
    /\ ReplacedDataOnly
    /\ ret.out[1].content # call.before[1].content
    /\ classes[call.cls].defining_count > 0
    /\ __eq__(classes, call.before[1], ret.out[1])

\* C3: the hash depends on the class and the defining values only: equal
\* records, and records differing in data fields only, have equal hashes
C3_HashConsistent ==
    \A a, b \in Held :
        (\/ __eq__(classes, a, b)
         \/ (a.cls = b.cls /\ DefiningOf(a) = DefiningOf(b)))
        => __hash__(classes, a) = __hash__(classes, b)

\* a copy that differs from its original in a data field has its hash
C3_Witness ==
    /\ ReplacedDataOnly
    /\ ret.out[1].content # call.before[1].content
    /\ classes[call.cls].defining_count > 0
    /\ __hash__(classes, call.before[1]) = __hash__(classes, ret.out[1])

\* C4: every record that exists stores exactly one value for each field of
\* the field table of its class
C4_Complete ==
    \A r \in Held : Len(r.content) = Len(FieldNames(r.cls))

\* a constructor call that got past the binding of its arguments is over
Constructed == pc = "done" /\ call.op = "new" /\ ret.phase # "call"

\* the initializers stored every argument under its name as it was passed
StoredAsPassed ==
    \A p \in DOMAIN call.args : p \in DOMAIN proxy /\ proxy[p] = call.args[p]

\* C5: the defining values of a constructed record are the arguments of the
\* constructor call, in the order of the parameters, also for a class that
\* inherits its initializer
C5_DefiningAreArguments ==
    (Constructed /\ ret.out # <<>> /\ StoredAsPassed) =>
        LET params == CtorParams(classes, call.cls)
        IN  _defining_values(classes, ret.out[1])
                = [i \in 1..Len(params) |-> call.args[params[i]]]

\* the initializers of a class and its ancestors, child first
InitChain(c) ==
    SelectSeq(Ancestors(classes, c),
              LAMBDA k : classes[k].nmspc.init.kind = "func")

\* the initializer declared by class c calls self.super().__init__
CallsSuper(c) ==
    /\ classes[c].nmspc.init.kind = "func"
    /\ \E i \in 1..Len(classes[c].nmspc.init.body) :
          classes[c].nmspc.init.body[i].op = "super"

\* C6: in a chain of classes whose initializers call self.super().__init__,
\* each call runs the initializer of the immediate parent, so that the
\* construction ends with every initializer of the chain run once, child
\* first, and returns the record
C6_SuperChain ==
    (Constructed /\ CallsSuper(call.cls)) =>
        /\ trace = InitChain(call.cls)
        /\ ret.exc = ""
        /\ ret.out # <<>>

\* the outermost initializer is about to run its first statement
BodyStart ==
    /\ pc = "init"
    /\ Len(stack) = 1
    /\ stack[1].pc = 1
    /\ Len(trace) = 1

\* the field is not in the builder and no class attribute stands in for it
Unset(f) == f \notin DOMAIN proxy /\ ClassAttr(classes, call.cls, f) = <<>>

\* C7: with auto_defining every argument is in the builder under the name
\* of its parameter before the body of the initializer runs, and a write
\* of the body replaces it; without it the builder is empty when the body
\* starts, and a defining field left unset fails the construction
C7_AutoDefining ==
    /\ (BodyStart /\ classes[call.cls].proxy_init.auto) =>
          \A p \in DOMAIN call.args :
              p \in DOMAIN proxy /\ proxy[p] = call.args[p]
    /\ (BodyStart /\ ~classes[call.cls].proxy_init.auto) => proxy = EmptyMap
    /\ (Constructed /\ call.cls = "TaggedPT" /\ ret.exc = "") =>
          /\ ret.out # <<>>
          /\ ret.out[1].content[1]
                = call.args["first_name"] \o Sep \o Suffix
    /\ (Constructed /\ ret.phase = "harvest"
          /\ \E f \in Range(_gen_defining_field_names(classes, call.cls)) :
                Unset(f))
       => ret.exc = "AttributeError" /\ ret.out = <<>>

\* the body of an auto_defining initializer starts with its three
\* arguments stored
C7_Witness ==
    /\ BodyStart
    /\ classes[call.cls].proxy_init.auto
    /\ Cardinality(DOMAIN call.args) = 3
    /\ proxy = call.args

\* C8: when the initializer returns and a field of the table has no value,
\* the construction fails with an AttributeError naming the first such
\* field in the order of the table, and no record is returned
C8_MissingField ==
    (pc = "done" /\ call.op = "new" /\ ret.phase = "harvest") =>
        LET keys == FieldNames(call.cls)
            missing == {i \in 1..Len(keys) : Unset(keys[i])}
        IN  IF missing = {}
            THEN /\ ret.exc = ""
                 /\ ret.out # <<>>
                 /\ Len(ret.out[1].content) = Len(keys)
            ELSE /\ ret.exc = "AttributeError"
                 /\ ret.out = <<>>
                 /\ \E i \in missing :
                       /\ ret.field = keys[i]
                       /\ \A j \in missing : i <= j

\* an initializer returned with two fields unset, and the first is named
C8_Witness ==
    /\ pc = "done"
    /\ call.op = "new"
    /\ ret.phase = "harvest"
    /\ Cardinality({f \in Range(FieldNames(call.cls)) : Unset(f)}) = 2
    /\ ret.field = "age"
    /\ ret.out = <<>>

(***************************************************************************)
(* Properties of the specification of class declaration.                   *)
(***************************************************************************)
\* the parameters of the initializer a class statement declares
OwnParams(c) ==
    IF classes[c].nmspc.init.kind = "func"
    THEN Tail(classes[c].nmspc.init.argnames)
    ELSE <<>>

\* the field names of the bases that are record classes, with the data
\* fields the class statement declares
Candidates(c) ==
    UNION {Range(FieldNames(classes[c].bases[i])) :
             i \in {j \in 1..Len(classes[c].bases) :
                      classes[c].bases[j] \in DOMAIN classes}}
      \cup (IF classes[c].nmspc.has_data
            THEN Range(classes[c].nmspc.data_fields) ELSE {})

Stated == pc = "done" /\ call.op = "class"

Updated ==
    /\ pc = "done"
    /\ call.op = "update"
    /\ DOMAIN call.kw
          \subseteq Range(_gen_defining_field_names(classes, call.cls))

\* the stored defining values of the record _update was called on, with
\* the keyword arguments in the places of their fields
Substituted ==
    LET names == _gen_defining_field_names(classes, call.cls)
        stored == call.before[1].content
    IN  [i \in 1..Min(Len(names), Len(stored)) |->
            IF names[i] \in DOMAIN call.kw THEN call.kw[names[i]]
            ELSE stored[i]]

\* the record returned holds for every field what the initializers left in
\* the builder
FromBuilder ==
    \A i \in 1..Len(FieldNames(call.cls)) :
        ret.out[1].content[i]
            = ProxyGetattr(classes, call.cls, proxy, FieldNames(call.cls)[i]).v

\* the classes whose initializers join the names into full_name
Persons == {"PersonPT", "PersonPE", "JohnsonsPT", "JohnsonsPE", "HeirPT"}

\* C11: r._update(overrides), with keys that are defining fields, calls
\* the class of r positionally with the defining values of r, overrides in
\* their places: it fails with TypeError when these do not bind to the
\* parameters of the initializer, and fails as the initializer fails;
\* a record returned is of the class of r and holds what the initializer
\* computed from these arguments, the data fields anew. The values passed
\* are the defining values of the result when the initializer stores its
\* arguments as they are.
C11_UpdateConstructs ==
    Updated =>
        LET params == CtorParams(classes, call.cls)
            b == Bind(<<"self">> \o params, Substituted, EmptyMap)
        IN  /\ b.exc # "" => (ret.exc = "TypeError" /\ ret.out = <<>>)
            /\ (b.exc = "" /\ params # <<>>) => call.args = b.locals
            /\ ret.exc = "" <=> ret.out # <<>>
            /\ ret.out # <<>> =>
                  /\ ret.out[1].cls = call.before[1].cls
                  /\ FromBuilder
                  /\ StoredAsPassed =>
                        _defining_values(classes, ret.out[1]) = Substituted
                  /\ call.cls \in Persons =>
                        RecordGetattr(classes, ret.out[1], "full_name").v
                          = RecordGetattr(classes, ret.out[1], "last_name").v
                              \o Sep \o
                            RecordGetattr(classes, ret.out[1], "first_name").v

\* an update of the age of a record whose full name was not the joined
\* names returned a record with the new age and the full name joined
C11_Witness ==
    /\ Updated
    /\ call.cls = "PersonPE"
    /\ DOMAIN call.kw = {"age"}
    /\ ret.out # <<>>
    /\ RecordGetattr(classes, ret.out[1], "age").v = call.kw["age"]
    /\ RecordGetattr(classes, call.before[1], "age").v # call.kw["age"]
    /\ RecordGetattr(classes, ret.out[1], "full_name").v
          # RecordGetattr(classes, call.before[1], "full_name").v

\* C11 as the specification states it: _update with keys that are defining
\* fields returns a record of the class whose defining values are those
\* of r with the overrides in their places
C11_AsStated ==
    Updated =>
        /\ ret.out # <<>>
        /\ ret.out[1].cls = call.before[1].cls
        /\ _defining_values(classes, ret.out[1]) = Substituted

\* a finished _replace whose keyword arguments all name fields of the class
Replaced ==
    /\ pc = "done"
    /\ call.op = "replace"
    /\ DOMAIN call.kw \subseteq Range(FieldNames(call.cls))

\* the record an operation was called on stores one value for every field
\* of its class
WholeBefore ==
    Len(call.before[1].content) = Len(FieldNames(call.cls))

\* the record returned holds the keyword argument for a field overridden
\* and the value of the record _replace was called on for any other
\* field; no initializer ran and the record called on is as it was
ReplaceFrame ==
    /\ ret.out # <<>>
    /\ ret.out[1].cls = call.before[1].cls
    /\ \A i \in 1..Len(FieldNames(call.cls)) :
          ret.out[1].content[i]
            = IF FieldNames(call.cls)[i] \in DOMAIN call.kw
              THEN call.kw[FieldNames(call.cls)[i]]
              ELSE call.before[1].content[i]
    /\ trace = <<>>
    /\ proxy = EmptyMap
    /\ records[call.target] = call.before[1]

\* C12: r._replace(overrides), with keys that are fields of the class of
\* r, returns a record of the class of r that holds the supplied value
\* for every overridden field and the value of r for every other field,
\* defining or data; no initializer runs and r is unchanged
C12_ReplaceFrame == Replaced => ReplaceFrame

\* C12 for the records that store a value for every field, of the classes
\* that have no field named cls
C12_WholeRecords ==
    (Replaced /\ WholeBefore /\ "cls" \notin Range(FieldNames(call.cls)))
        => ReplaceFrame

\* a finished _update with a keyword argument that names no defining field
UpdatedUnexpected ==
    /\ pc = "done"
    /\ call.op = "update"
    /\ ~(DOMAIN call.kw
            \subseteq Range(_gen_defining_field_names(classes, call.cls)))

\* a finished _replace with a keyword argument that names no field
ReplacedUnexpected ==
    /\ pc = "done"
    /\ call.op = "replace"
    /\ ~(DOMAIN call.kw \subseteq Range(FieldNames(call.cls)))

\* the call of the class made by _update went through: the arguments were
\* bound, every initializer returned, and every field was set
ClassReturned ==
    /\ Bind(<<"self">> \o CtorParams(classes, call.cls), Substituted,
            EmptyMap).exc = ""
    /\ stack = <<>>
    /\ ret.phase # "init"
    /\ \A fn \in Range(FieldNames(call.cls)) :
          ProxyGetattr(classes, call.cls, proxy, fn).exc = ""

\* the fields _replace reads from the record are all there to read
FieldsRead ==
    \A fn \in Range(FieldNames(call.cls)) \ DOMAIN call.kw :
        RecordGetattr(classes, call.before[1], fn).exc = ""

\* the keyword arguments of the finished call bound to **kwargs: none is
\* named as the parameter self of _update and _replace
KeywordsBound == "self" \notin DOMAIN call.kw

Made == pc = "done" /\ call.op = "make"

\* _make returned a record exactly when the keys were the fields of the
\* class, the record holds the value given for every field and no
\* initializer ran; a field without a key is the missing-field error
\* (AttributeError), a key that is no field, when no field is missing, the
\* unexpected-field error (ValueError)
MakeExact ==
    LET names == Range(FieldNames(call.cls))
    IN  /\ ret.out # <<>> <=> DOMAIN call.kw = names
        /\ ret.out # <<>> =>
              /\ ret.out[1].cls = call.cls
              /\ \A i \in 1..Len(FieldNames(call.cls)) :
                    ret.out[1].content[i] = call.kw[FieldNames(call.cls)[i]]
              /\ trace = <<>>
              /\ proxy = EmptyMap
        /\ names \ DOMAIN call.kw # {} => ret.exc = "AttributeError"
        /\ (names \ DOMAIN call.kw = {} /\ DOMAIN call.kw \ names # {})
              => ret.exc = "ValueError"

\* C14: cls._make(field map) succeeds exactly when the keys of the map are
\* the fields of the class; the record then holds the mapped value for
\* every field and no initializer runs. It fails with the missing-field
\* error when a field has no key, and with the unexpected-field error when
\* every field has a key and there is a key more.
C14_MakeExact == Made => MakeExact

\* C14 for the field maps without a key named cls
C14_NoKeyCls == (Made /\ "cls" \notin DOMAIN call.kw) => MakeExact

\* a finished call of the bypass path, _make or _load_from_dict with
\* full=True, on the dict r._asdict(full=True, class_tags) of a record r
Bypassed ==
    /\ pc = "done"
    /\ call.op \in {"make", "load"}
    /\ call.full
    /\ call.before # <<>>

\* the dict was formed with class tags
Tagged == DOMAIN call.tags # {}

\* a field of the record holds another programmable tuple
HoldsRecord(r) == \E i \in 1..Len(r.content) : IsRecordValue(r.content[i])

\* C15: a record the bypass path returns from the full dict of a record r
\* is of the class of r and was made without an initializer running. It
\* has the value of r in every field, data fields too, and so is equal to
\* r, when no field of r holds a programmable tuple, or when the dict was
\* formed with class tags and is loaded by _load_from_dict with a table
\* that resolves them. A programmable tuple in a defining field of r that
\* was cast to a dict without tag stays a dict: the record is not equal to
\* r. _make takes no dict with tags.
C15_BypassRoundTrip ==
    Bypassed =>
        /\ (call.op = "make" /\ Tagged) => ret.out = <<>>
        /\ ret.out # <<>> =>
              /\ trace = <<>>
              /\ proxy = EmptyMap
              /\ ret.out[1].cls = call.before[1].cls
              /\ (~HoldsRecord(call.before[1]) \/ Tagged) =>
                    /\ ret.out[1] = call.before[1]
                    /\ __eq__(classes, ret.out[1], call.before[1])
              /\ (HoldsRecord(call.before[1]) /\ ~Tagged) =>
                    ~__eq__(classes, ret.out[1], call.before[1])

\* a box that holds a person with a full name replaced came back from its
\* tagged full dict with the person in it, the full name as it was
C15_Witness ==
    /\ Bypassed
    /\ call.op = "load"
    /\ Tagged
    /\ ret.out # <<>>
    /\ HoldsRecord(call.before[1])
    /\ ret.out[1] = call.before[1]
    /\ LET p == UnpackRecord(call.before[1].content[1])
       IN  /\ p.cls = "PersonPE"
           /\ RecordGetattr(classes, p, "full_name").v
                # RecordGetattr(classes, p, "last_name").v \o Sep \o
                  RecordGetattr(classes, p, "first_name").v

\* C15 as the specification states it, for the records it names, those
\* with a field that holds a record: the full dict of the record, given to
\* _make or to _load_from_dict with full=True, yields a record equal to it
\* with its data fields, no initializer run
C15_AsStated ==
    (Bypassed /\ ~Tagged /\ HoldsRecord(call.before[1])) =>
        /\ ret.out # <<>>
        /\ __eq__(classes, ret.out[1], call.before[1])
        /\ ret.out[1].content = call.before[1].content
        /\ trace = <<>>

\* a finished _load_from_dict with full=False, called on the class of a
\* record r with the dict r._asdict(full=False, class_tags)
RoundLoaded ==
    /\ pc = "done"
    /\ call.op = "load"
    /\ ~call.full
    /\ call.before # <<>>

\* a defining field of the record holds another programmable tuple
DefinedByRecord(r) ==
    \E i \in 1..Len(_defining_values(classes, r)) :
        IsRecordValue(r.content[i])

\* C16: a record _load_from_dict returns from the dict of the defining
\* fields of a record r is what the class of r makes of the defining
\* values of r passed by keyword, a programmable tuple among them loaded
\* again when the dict has class tags and left as a dict when it has none.
\* It is equal to r when the initializers store these values as they are
\* passed; with a programmable tuple left as a dict it is not equal to r.
C16_NormalRoundTrip ==
    (RoundLoaded /\ ret.out # <<>>) =>
        LET r == call.before[1]
            names == _gen_defining_field_names(classes, r.cls)
        IN  /\ ret.out[1].cls = r.cls
            /\ FromBuilder
            /\ DOMAIN call.args = Range(names)
            /\ \A i \in 1..Len(names) :
                  IF ~IsRecordValue(r.content[i])
                  THEN call.args[names[i]] = r.content[i]
                  ELSE IF Tagged
                  THEN /\ IsRecordValue(call.args[names[i]])
                       /\ UnpackRecord(call.args[names[i]]).cls
                            = UnpackRecord(r.content[i]).cls
                  ELSE IsDictValue(call.args[names[i]])
            /\ (/\ StoredAsPassed
                /\ \A i \in 1..Len(names) :
                      ValueEq(classes, call.args[names[i]], r.content[i]))
                  => __eq__(classes, ret.out[1], r)
            /\ (DefinedByRecord(r) /\ ~Tagged)
                  => ~__eq__(classes, ret.out[1], r)

\* a box that holds a person with a full name replaced came back from its
\* tagged dict equal to itself, the full name of the person made anew
C16_Witness ==
    /\ RoundLoaded
    /\ Tagged
    /\ ret.out # <<>>
    /\ DefinedByRecord(call.before[1])
    /\ __eq__(classes, ret.out[1], call.before[1])
    /\ ret.out[1] # call.before[1]
    /\ UnpackRecord(call.before[1].content[1]).cls = "PersonPE"

\* C16 as the specification states it, for the records it names, those
\* with a defining field that holds a record, encoded without class tags:
\* _load_from_dict(r._asdict(full=False), full=False) called on the class
\* of r yields a record equal to r
C16_AsStated ==
    (RoundLoaded /\ DefinedByRecord(call.before[1]) /\ ~Tagged) =>
        /\ ret.out # <<>>
        /\ __eq__(classes, ret.out[1], call.before[1])

\* a finished _load_from_dict
Loaded == pc = "done" /\ call.op = "load"

\* the dict has a class tag
HasTag(d) == "__class__" \in DOMAIN d

\* the table given to _load_from_dict has a class for the tag of the dict
Resolves(d) ==
    /\ Len(call.table) = 1
    /\ d["__class__"] \in DOMAIN call.table[1]

\* the keys of the dict given whose values are dicts the call looks at:
\* all when full, else those of the defining fields of the class loaded
NestedKeys ==
    {fn \in Range(LoadNames(classes, call.work[1], call.full)) :
        /\ fn \in DOMAIN call.dict[1]
        /\ IsDictValue(call.dict[1][fn])}

\* the class of the object is the class of the tag when the dict has a
\* tag, and the class the method is called on when it has none; a tag
\* without a class, at the top or below it, is the unresolved-tag error
\* (ValueError); a dict without tag below the top is in the object as the
\* dict it is
TypeResolution ==
    LET d == call.dict[1]
    IN  /\ (HasTag(d) /\ ~Resolves(d)) =>
              (ret.exc = "ValueError" /\ ret.field = "" /\ ret.out = <<>>)
        /\ (HasTag(d) /\ Resolves(d) /\ ret.out # <<>>) =>
              ret.out[1].cls = call.table[1][d["__class__"]]
        /\ (~HasTag(d) /\ ret.out # <<>>) => ret.out[1].cls = call.on
        /\ (~HasTag(d) \/ Resolves(d)) =>
              \A fn \in NestedKeys :
                 LET sub == UnpackDict(d[fn])
                 IN  /\ (HasTag(sub) /\ ~Resolves(sub)) =>
                           (ret.exc = "ValueError" /\ ret.out = <<>>)
                     /\ (~HasTag(sub) /\ ret.out # <<>>) =>
                           IF call.full
                           THEN RecordGetattr(classes, ret.out[1], fn).v = d[fn]
                           ELSE call.args[fn] = d[fn]

\* C17: _load_from_dict makes the object of the class the table has for
\* the tag of the dict and fails with the unresolved-tag error when the
\* tag has no class, the table not being given included; a dict without
\* tag is loaded as the class the method is called on at the top and is
\* left a plain dict below the top
C17_TypeResolution == Loaded => TypeResolution

\* C17 for the calls that are given a table
C17_WithTable == (Loaded /\ Len(call.table) = 1) => TypeResolution

(***************************************************************************)
(* Properties of the main specification: the storage and inequality.       *)
(***************************************************************************)
\* C18: whatever the kind of the record, an assignment to any attribute of
\* a record a call has returned, the storage attribute __content__
\* included, fails and leaves the values the record stores as the
\* freezing wrote them
C18_StorageWrittenOnce ==
    (pc = "done" /\ call.op = "setattr") =>
        /\ ret.exc = "AttributeError"
        /\ records[call.target] = call.before[1]

\* C18 for the records that are tuples
C18_TupleRecords ==
    (pc = "done" /\ call.op = "setattr" /\ classes[call.cls].is_tuple) =>
        /\ ret.exc = "AttributeError"
        /\ records[call.target] = call.before[1]

\* C20: for any two records, a != b holds exactly when a == b does not;
\* two records that are tuples, of one class, with equal defining values
\* and different data values are equal, and are not unequal
C20_NeNegatesEq ==
    \A a, b \in Held :
        __ne__(classes, a, b) <=> ~__eq__(classes, a, b)

\* C20 for the records that are not tuples
C20_ExprRecords ==
    \A a, b \in Held :
        (~classes[a.cls].is_tuple \/ ~classes[b.cls].is_tuple) =>
            (__ne__(classes, a, b) <=> ~__eq__(classes, a, b))

(***************************************************************************)
(* Properties of the specification of the utility methods: reads of the    *)
(* proxy object.                                                           *)
(***************************************************************************)
\* what a read of attribute n of the proxy object has to give, in a
\* sequence: the value last assigned in this call of the class, else the
\* value of the property or method of that name the class has or
\* inherits; empty when there is neither
Expected(n) ==
    LET a == ClassAttr(classes, call.cls, n)
    IN  IF n \in DOMAIN proxy THEN <<proxy[n]>>
        ELSE IF a = <<>> THEN <<>>
        ELSE IF a[1].k # "succ" THEN <<a[1].v>>
        ELSE IF a[1].n \in DOMAIN proxy THEN <<<<proxy[a[1].n][1] + 1>>>>
        ELSE <<>>

\* the statement self.field = expr about to run reads an attribute of the
\* proxy object
ReadsProxy ==
    /\ pc = "init"
    /\ Top.pc <= Len(TopBody)
    /\ TopBody[Top.pc].op = "set"
    /\ TopBody[Top.pc].expr.k \in {"attr", "tag"}

\* the step of the statement: with nothing to read the initializer ends in
\* AttributeError, which reaches the caller of the class, no object made
\* and nothing assigned; else the value read is the one assigned, alone or
\* with the literal appended
ReadStep ==
    LET st == TopBody[Top.pc]
        x == Expected(st.expr.n)
    IN  IF x = <<>>
        THEN /\ pc' = "done"
             /\ ret'.exc = "AttributeError"
             /\ ret'.out = <<>>
             /\ proxy' = proxy
        ELSE /\ pc' = "init"
             /\ proxy'[st.field] = IF st.expr.k = "attr" THEN x[1]
                                   ELSE x[1] \o Sep \o st.expr.v

\* C19: while the class is called, a read of an attribute of the proxy
\* object gives the value last assigned to it in this call, else the
\* value of the property or method of that name of the class hierarchy,
\* and else fails with AttributeError; a field read in the initializer
\* before it is set fails, and the error reaches the caller of the class
\* with no record made
C19_BuilderReads == [][(ReadsProxy /\ StepSet) => ReadStep]_vars

\* once the error of an initializer has reached the caller, no record
\* comes of the call
C19_NoRecord ==
    (pc = "done" /\ ret.phase = "init") => (ret.exc # "" /\ ret.out = <<>>)

\* the initializer that reads first_name before it sets it ended in
\* AttributeError at the caller, no record made
C19_Witness ==
    /\ pc = "done"
    /\ call.op = "new"
    /\ call.cls = "EagerPE"
    /\ "first_name" \notin DOMAIN proxy
    /\ ret.exc = "AttributeError"
    /\ ret.phase = "init"
    /\ ret.out = <<>>
====
